---- MODULE Spec2Model ----
(***************************************************************************)
(* Digg RSS Worker (src/src/index.js): the request handler `fetch` as a    *)
(* state machine.  One request runs route resolution, the feed-cache       *)
(* lookup, the (window x variant) GraphQL loop, per-post TL;DR enrichment, *)
(* RSS rendering and the fire-and-forget cache write.                      *)
(*                                                                         *)
(* Strings that the code takes apart (paths, ids, slugs) are sequences of  *)
(* one-character strings; fixed literals that are only concatenated and    *)
(* compared are single atoms.                                              *)
(***************************************************************************)
EXTENDS Integers, Sequences, FiniteSets, TLC

(***************************************************************************)
(* Bounds of the model.                                                    *)
(***************************************************************************)
\* Largest number of edges the upstream returns for one attempt, when one
\* request is followed and when two are.
MaxRecs == 5
PairRecs == 2
RaceRecs == 1

(***************************************************************************)
(* String helpers (JavaScript String methods used by the handler).         *)
(***************************************************************************)
startsWith(s, pre) ==
  /\ Len(s) >= Len(pre)
  /\ SubSeq(s, 1, Len(pre)) = pre

endsWith(s, suf) ==
  /\ Len(s) >= Len(suf)
  /\ SubSeq(s, Len(s) - Len(suf) + 1, Len(s)) = suf

\* s.slice(k)
slice(s, k) == SubSeq(s, k + 1, Len(s))

Uppers == <<"A","B","C","D","E","F","G","H","I","J","K","L","M",
            "N","O","P","Q","R","S","T","U","V","W","X","Y","Z">>
Lowers == <<"a","b","c","d","e","f","g","h","i","j","k","l","m",
            "n","o","p","q","r","s","t","u","v","w","x","y","z">>
Digits == {"0","1","2","3","4","5","6","7","8","9"}

toLowerChar(c) ==
  IF \E i \in 1..26 : Uppers[i] = c
  THEN Lowers[CHOOSE i \in 1..26 : Uppers[i] = c]
  ELSE c

toLowerCase(s) == [i \in 1..Len(s) |-> toLowerChar(s[i])]

\* The character class [a-z0-9-] under the i flag.
SlugClass == { Lowers[i] : i \in 1..26 } \cup { Uppers[i] : i \in 1..26 }
             \cup Digits \cup {"-"}

(***************************************************************************)
(* Route resolution (index.js 198-211).                                    *)
(***************************************************************************)
RssPrefix    == <<"/","r","s","s","/">>
LegacyPrefix == <<"/","r","s","s","/","d","i","g","g","/">>
XmlSuffix    == <<".","x","m","l">>
AllPath      == RssPrefix \o <<"a","l","l","-","d","i","g","g","-",
                               "t","r","e","n","d","i","n","g">> \o XmlSuffix

\* pathname.replace("/rss/digg/", "/rss/") guarded by startsWith: the first
\* occurrence is the leading one.
rewriteLegacy(pathname) ==
  IF startsWith(pathname, LegacyPrefix)
  THEN RssPrefix \o slice(pathname, Len(LegacyPrefix))
  ELSE pathname

\* slugMatch without the i flag
slugMatch_CaseSensitive(pathname) ==
  /\ startsWith(pathname, RssPrefix)
  /\ endsWith(pathname, XmlSuffix)
  /\ Len(pathname) > Len(RssPrefix) + Len(XmlSuffix)
  /\ \A i \in (Len(RssPrefix) + 1)..(Len(pathname) - Len(XmlSuffix)) :
        pathname[i] \in { Lowers[j] : j \in 1..26 } \cup Digits \cup {"-"}

\* pathname.match(/^\/rss\/([a-z0-9-]+)\.xml$/i): the i flag covers the
\* whole pattern, the literals "/rss/" and ".xml" included.
slugMatch(pathname) ==
  /\ startsWith(toLowerCase(pathname), RssPrefix)
  /\ endsWith(toLowerCase(pathname), XmlSuffix)
  /\ Len(pathname) > Len(RssPrefix) + Len(XmlSuffix)
  /\ \A i \in (Len(RssPrefix) + 1)..(Len(pathname) - Len(XmlSuffix)) :
        pathname[i] \in SlugClass

\* m[1]
slugGroup(pathname) ==
  SubSeq(pathname, Len(RssPrefix) + 1, Len(pathname) - Len(XmlSuffix))

NoSlug == <<>>

isAllPath(pathname) == pathname = AllPath

\* const communitySlug = !isAll && m ? m[1].toLowerCase() : null
communitySlugOf(pathname) ==
  IF ~isAllPath(pathname) /\ slugMatch(pathname)
  THEN toLowerCase(slugGroup(pathname))
  ELSE NoSlug

\* if (!isAll && !communitySlug) return 404
notFound(pathname) ==
  ~isAllPath(pathname) /\ communitySlugOf(pathname) = NoSlug

(***************************************************************************)
(* clampInt (index.js 8-12).  A query parameter is absent, a string that   *)
(* parseInt turns into NaN, or a string that parseInt turns into n.        *)
(***************************************************************************)
Absent == [kind |-> "absent", n |-> 0]
NaNStr == [kind |-> "nan", n |-> 0]
IntStr(n) == [kind |-> "int", n |-> n]

Max2(a, b) == IF a >= b THEN a ELSE b
Min2(a, b) == IF a <= b THEN a ELSE b

clampInt(v, fallback, min, max) ==
  IF v.kind # "int" THEN fallback
  ELSE Max2(min, Min2(max, v.n))

LimitDefault == 10
LimitMin == 1
LimitMax == 50
TldrDefault == 220
TldrMin == 80
TldrMax == 500

limitOf(query) == clampInt(query.limit, LimitDefault, LimitMin, LimitMax)
tldrMaxOf(query) == clampInt(query.tldr, TldrDefault, TldrMin, TldrMax)

\* Math.min(limit, 5): the acceptance threshold of the query loop.
GoodEnough == 5
threshold(limit) == Min2(limit, GoodEnough)

(***************************************************************************)
(* Post records as the upstream returns them (edge.node).  comm is         *)
(* node.community?.slug and ext is node.externalContent?.url, <<>> when    *)
(* missing; meta says whether the post's page carries a description tag.   *)
(***************************************************************************)
Site == <<"https://digg.com/">>
Slash == <<"/">>
Dash == <<"-">>
DefaultComm == <<"d","i","g","g">>

Post(id, slug, comm, ext, meta) ==
  [node |-> TRUE, id |-> id, slug |-> slug, comm |-> comm, ext |-> ext,
   meta |-> meta]

\* An edge without a node object: destructuring it makes the item callback throw.
BadEdge ==
  [node |-> FALSE, id |-> <<>>, slug |-> <<>>, comm |-> <<>>, ext |-> <<>>,
   meta |-> FALSE]

PostKinds ==
  << Post(<<"t","-","7">>, <<"a">>, <<"t">>, <<>>, TRUE),
     Post(<<"8">>, <<"b">>, <<"t">>, <<"https://example.com/x">>, FALSE),
     Post(<<"d","i","g","g","-","9">>, <<"c">>, <<>>, <<>>, FALSE),
     Post(<<"t","x","-","5">>, <<"d">>, <<"t">>,
          Site \o <<"t">> \o Slash \o <<"t","x","-","5">> \o Slash \o <<"d">>,
          FALSE) >>

PostAt(i) == PostKinds[((i - 1) % Len(PostKinds)) + 1]

\* The n posts the upstream lists from position off + 1 on.
Listing(n, off) == [i \in 1..n |-> PostAt(i + off)]

Offsets == {0, 1}

(***************************************************************************)
(* What one GraphQL attempt can come back with (index.js 268-278): fetch   *)
(* throws, or a response with resp.ok, resp.status and the value of        *)
(* resp.json().catch(() => ({})).  An error payload is kept with the       *)
(* length of its JSON.stringify text.                                      *)
(***************************************************************************)
NoErr == [what |-> "none", len |-> 0]
Payload(what, len) == [what |-> what, len |-> len]

Reply(throws, ok, status, jsonNull, hasEdges, list, errors, jsonLen) ==
  [throws |-> throws, ok |-> ok, status |-> status, jsonNull |-> jsonNull,
   hasEdges |-> hasEdges, list |-> list, errors |-> errors, jsonLen |-> jsonLen]

OkReply(list) == Reply(FALSE, TRUE, 200, FALSE, TRUE, list, NoErr, 20)

\* Serialized lengths of the error payloads the upstream sends.
SmallErrLen == 40
BigErrLen == 2500

Replies(most) ==
  { OkReply(Listing(n, off)) : n \in 0..most, off \in Offsets }
  \cup
  { OkReply(<<BadEdge>>),
    \* 200 with data and a GraphQL errors array
    Reply(FALSE, TRUE, 200, FALSE, TRUE, Listing(2, 0),
          Payload("errors", SmallErrLen), 90),
    Reply(FALSE, TRUE, 200, FALSE, FALSE, <<>>,
          Payload("errors", BigErrLen), BigErrLen + 10),
    \* HTTP failure whose body is no JSON: json = {}
    Reply(FALSE, FALSE, 500, FALSE, FALSE, <<>>, NoErr, 2),
    \* HTTP failure whose body is the JSON value null
    Reply(FALSE, FALSE, 503, TRUE, FALSE, <<>>, NoErr, 4),
    \* network-level exception: fetch rejects
    Reply(TRUE, FALSE, 0, TRUE, FALSE, <<>>, NoErr, 0) }

\* resp.ok && json?.data?.posts?.edges && !json?.errors
succeeded(r) == r.ok /\ ~r.jsonNull /\ r.hasEdges /\ r.errors = NoErr

\* json?.errors || json || { status: resp.status }
StatusObjLen == 14
errorOf(r) ==
  IF ~r.jsonNull /\ r.errors # NoErr THEN r.errors
  ELSE IF ~r.jsonNull THEN Payload("json", r.jsonLen)
  ELSE Payload("status", StatusObjLen)

(***************************************************************************)
(* Requests.  A URL is its path and its query parameters.                  *)
(***************************************************************************)
Url(path, limit, tldr) == [path |-> path, limit |-> limit, tldr |-> tldr]

FooXml == <<"f","o","o">> \o XmlSuffix
AllName == slice(AllPath, Len(RssPrefix))

P_all        == AllPath
P_legacyAll  == LegacyPrefix \o AllName
P_foo        == RssPrefix \o FooXml
P_legacyFoo  == LegacyPrefix \o FooXml
P_mixedCase  == RssPrefix \o <<"F","o","-","0">> \o XmlSuffix
P_upperExt   == RssPrefix \o <<"f","o","o",".","X","M","L">>
P_upperRss   == <<"/","R","S","S","/">> \o FooXml
P_underscore == RssPrefix \o <<"F","o","o","_","B","a","r">> \o XmlSuffix
P_twiceLegacy == LegacyPrefix \o <<"d","i","g","g","/">> \o FooXml
P_noSlug     == RssPrefix \o XmlSuffix
P_root       == <<"/">>
P_noExt      == RssPrefix \o <<"f","o","o">>

NotFoundPaths == {P_underscore, P_twiceLegacy, P_noSlug, P_root, P_noExt}

AllFeedUrls ==
  { Url(P_all, Absent, Absent), Url(P_legacyAll, Absent, Absent),
    Url(P_all, IntStr(2), Absent) }

Urls ==
  AllFeedUrls
  \cup { Url(p, Absent, Absent) :
           p \in {P_foo, P_legacyFoo, P_mixedCase, P_upperExt, P_upperRss}
                 \cup NotFoundPaths }
  \cup { Url(P_foo, l, Absent) : l \in {IntStr(0), IntStr(3), IntStr(99), NaNStr} }
  \cup { Url(P_all, IntStr(2), IntStr(40)) }

\* What a run is given: the requests the clients send, in order, and the
\* number of posts the upstream has to list.  Any single request, or two
\* requests for the all-feed against a small upstream.
Scenarios ==
  { <<(<<u>>), MaxRecs>> : u \in Urls }
  \cup { <<(<<u1, u2>>), PairRecs>> : u1 \in AllFeedUrls, u2 \in AllFeedUrls }

(***************************************************************************)
(* Responses.  A body is its fixed text prefix, the error it reports, and  *)
(* for a feed the channel's selector and its items.                        *)
(***************************************************************************)
Response(status, ctype, cc, prefix, err, sel, items) ==
  [status |-> status, ctype |-> ctype, cc |-> cc, prefix |-> prefix,
   err |-> err, sel |-> sel, items |-> items]

NoResp == Response(0, "", "", "", NoErr, <<>>, <<>>)

\* return new Response("Not found", { status: 404 })
notFoundResponse == Response(404, "", "", "Not found", NoErr, <<>>, <<>>)

\* "Upstream error: " + JSON.stringify(lastErr || {})
EmptyObjLen == 2
upstreamErrorResponse(lastErr) ==
  Response(502, "text/plain; charset=utf-8", "", "Upstream error: ",
           IF lastErr = NoErr THEN Payload("empty", EmptyObjLen) ELSE lastErr,
           <<>>, <<>>)

\* a catch clause that throws again: the exception reaches the platform
catch_Rethrows(err) ==
  Response(0, "", "", "uncaught", Payload(err, 0), <<>>, <<>>)

\* catch (err) { return new Response("Worker error: " + ..., { status: 500 }) }
catch(err) ==
  Response(500, "text/plain; charset=utf-8", "", "Worker error: ",
           Payload(err, 0), <<>>, <<>>)

\* new Response(rss, { headers: { content-type, cache-control } })
feedResponse(sel, items) ==
  Response(200, "application/rss+xml; charset=utf-8", "public, max-age=600",
           "", NoErr, sel, items)

(***************************************************************************)
(* The query loop's windows and variants (index.js 242-259).               *)
(***************************************************************************)
AllSel == <<"all">>
selectorOf(isAll, communitySlug) == IF isAll THEN AllSel ELSE communitySlug

windowsMs(isAll) ==
  IF isAll THEN <<24, 168>> ELSE <<24, 72, 168>>

whereVariants(isAll) ==
  IF isAll THEN <<"createdDate_GT">>
  ELSE <<"communitySlug", "communitySlug_EQ", "community.slug",
         "community.slug_EQ">>

NoEdges == [set |-> FALSE, list |-> <<>>]
Edges(list) == [set |-> TRUE, list |-> list]

\* candidate.length >= Math.min(limit, 5)
goodEnough(list, limit) == Len(list) >= threshold(limit)

\* edgesAfter with >= for > at line 288: a later success of the same size
\* replaces the earlier one.
edgesAfter_LastWins(edges, r, limit) ==
  IF ~succeeded(r) THEN edges
  ELSE IF goodEnough(r.list, limit) THEN Edges(r.list)
  ELSE IF ~edges.set \/ Len(r.list) >= Len(edges.list) THEN Edges(r.list)
  ELSE edges

\* index.js 280-293: what one reply does to edges
edgesAfter(edges, r, limit) ==
  IF ~succeeded(r) THEN edges
  ELSE IF goodEnough(r.list, limit) THEN Edges(r.list)
  ELSE IF ~edges.set \/ Len(r.list) > Len(edges.list) THEN Edges(r.list)
  ELSE edges

\* lastErrAfter keeping the first error instead of the latest.
lastErrAfter_KeepsFirst(lastErr, r) ==
  IF succeeded(r) \/ lastErr # NoErr THEN lastErr ELSE errorOf(r)

\* index.js 291-293: what one reply does to lastErr
lastErrAfter(lastErr, r) ==
  IF succeeded(r) THEN lastErr ELSE errorOf(r)

\* the inner break (285) and the outer break (296)
innerBreak(r, limit) == succeeded(r) /\ goodEnough(r.list, limit)
outerBreak(edges, limit) == edges.set /\ goodEnough(edges.list, limit)

(***************************************************************************)
(* Item assembly (index.js 308-345).                                       *)
(***************************************************************************)
\* node.community?.slug || "digg"
commOf(node) == IF node.comm = <<>> THEN DefaultComm ELSE node.comm

\* rawId.startsWith(comm + "-") ? rawId.slice((comm + "-").length) : rawId
shortIdOf(node) ==
  IF startsWith(node.id, commOf(node) \o Dash)
  THEN slice(node.id, Len(commOf(node) \o Dash))
  ELSE node.id

\* `https://digg.com/${comm}/${shortId}/${node.slug}`
diggLinkOf(node) ==
  Site \o commOf(node) \o Slash \o shortIdOf(node) \o Slash \o node.slug

\* const link = externalUrl || diggLink
linkOf(node) == IF node.ext # <<>> THEN node.ext ELSE diggLinkOf(node)

\* guid: link for guid: diggLink
guidOf_Link(node) == linkOf(node)

\* guid: diggLink
guidOf(node) == diggLinkOf(node)

\* baseText = tldr || node.title; the "Discuss on Digg" link goes with an
\* external URL.
descriptionOf(node, tldr) ==
  [text |-> IF tldr # "" THEN "tldr" ELSE "title", discuss |-> node.ext # <<>>]

itemOf(node, tldr) ==
  [link |-> linkOf(node), guid |-> guidOf(node),
   description |-> descriptionOf(node, tldr)]

(***************************************************************************)
(* fetchDiggTldr (index.js 111-150).  The per-post TL;DR cache is shared   *)
(* with every other feed and expires on its own, so what its lookup finds  *)
(* is the environment's choice.                                            *)
(***************************************************************************)
TldrOutcomes == {"matchThrows", "cached", "fetchThrows", "notOk", "fetched"}

\* the text a page's description tag yields, "" when it has none
pageTldr(node) == IF node.meta THEN "tldr" ELSE ""

\* the string fetchDiggTldr returns when it returns
fetchDiggTldr(node, outcome) ==
  CASE outcome = "cached"      -> pageTldr(node)
    [] outcome = "fetchThrows" -> ""
    [] outcome = "notOk"       -> ""
    [] outcome = "fetched"     -> pageTldr(node)

\* whether the call issued the page fetch
fetchesPage(outcome) == outcome \in {"fetchThrows", "notOk", "fetched"}

(***************************************************************************)
(* State.                                                                  *)
(***************************************************************************)
Procs == {1, 2}

VARIABLES
  req,      \* req[p]: the locals of handler invocation p
  cache,    \* caches.default, the feed entries: key -> stored response
  pending,  \* cache.put calls handed to ctx.waitUntil, not yet settled; seq is
            \* the ordinal of the request that made the call
  todo,     \* the requests still to arrive
  upstream, \* the number of posts the upstream has to list
  log       \* the requests answered so far, in order

vars == <<req, cache, pending, todo, upstream, log>>

\* History kept beside the code's locals: attempts lists the (window,
\* variant) pairs queried, fetches counts the page fetches, looked and found
\* say that the feed cache was consulted and held the key, threw names the
\* place an exception came from, and best is the result the query loop owes
\* by its contract.
NoBest ==
  [set |-> FALSE, list |-> <<>>, accepted |-> FALSE, tie |-> FALSE, err |-> NoErr]

Idle ==
  [pc |-> "idle", url |-> Url(<<>>, Absent, Absent), isAll |-> FALSE,
   communitySlug |-> NoSlug, limit |-> 0, tldrMax |-> 0,
   w |-> 0, v |-> 0, edges |-> NoEdges, lastErr |-> NoErr,
   attempts |-> <<>>, items |-> <<>>, fetches |-> 0, looked |-> FALSE,
   found |-> FALSE, hit |-> FALSE, threw |-> "", resp |-> NoResp,
   best |-> NoBest]

\* a key made from the rewritten pathname
cacheKeyOf_Pathname(url, pathname) == [url EXCEPT !.path = pathname]

\* new Request(url.toString(), { method: "GET" }): url is the URL as it was
\* received; the legacy rewrite is applied to the local pathname only.
cacheKeyOf(url, pathname) == url

Init ==
  /\ req = [p \in Procs |-> Idle]
  /\ cache = [k \in Urls |-> NoResp]
  /\ pending = {}
  /\ \E sc \in Scenarios : todo = sc[1] /\ upstream = sc[2]
  /\ log = <<>>

\* The handler returns resp.
Return(p, r, resp) ==
  /\ req' = [req EXCEPT ![p] = [r EXCEPT !.pc = "done", !.resp = resp]]
  /\ log' = Append(log, [url |-> r.url, hit |-> r.hit, status |-> resp.status])

\* An exception raised at `site` inside the try block: the catch clause
\* makes the response.
Throw(p, r, site) == Return(p, [r EXCEPT !.threw = site], catch(site))

\* the lookup's result is ignored
isHit_Never(cached) == FALSE

\* if (cached) return cached
isHit(cached) == cached # NoResp

(***************************************************************************)
(* index.js 198-216: a request arrives; the route is resolved.             *)
(***************************************************************************)
Arrive(p) ==
  /\ req[p].pc \in {"idle", "done"}
  /\ todo # <<>>
  /\ todo' = Tail(todo)
  /\ LET url == Head(todo)
         pathname == rewriteLegacy(url.path)
         r == [Idle EXCEPT !.url = url]
     IN IF notFound(pathname)
        THEN Return(p, r, notFoundResponse)
        ELSE /\ req' = [req EXCEPT ![p] =
                  [r EXCEPT !.pc = "match",
                            !.isAll = isAllPath(pathname),
                            !.communitySlug = communitySlugOf(pathname),
                            !.limit = limitOf(url),
                            !.tldrMax = tldrMaxOf(url)]]
             /\ log' = log
  /\ UNCHANGED <<cache, pending, upstream>>

(***************************************************************************)
(* index.js 235-238: the feed-cache lookup.                                *)
(***************************************************************************)
CacheMatch(p) ==
  /\ req[p].pc = "match"
  /\ LET r == [req[p] EXCEPT !.looked = TRUE, !.found = cache[req[p].url] # NoResp]
         cached == cache[cacheKeyOf(r.url, rewriteLegacy(r.url.path))]
     IN \/ /\ isHit(cached)
           /\ Return(p, [r EXCEPT !.hit = TRUE], cached)
        \/ /\ ~isHit(cached)
           /\ req' = [req EXCEPT ![p] = [r EXCEPT !.pc = "attempt", !.w = 1, !.v = 1]]
           /\ log' = log
        \/ Throw(p, r, "cache.match")
  /\ UNCHANGED <<cache, pending, todo, upstream>>

(***************************************************************************)
(* index.js 249-304: one (window, variant) attempt and what follows it.    *)
(***************************************************************************)
\* The loop's contract applied to one more reply: the first good-enough
\* success is final; until then the largest success, the earliest on ties;
\* err is the payload of the latest failed attempt.
owedAfter(best, r, limit) ==
  IF ~succeeded(r) THEN [best EXCEPT !.err = errorOf(r)]
  ELSE IF best.accepted THEN best
  ELSE IF Len(r.list) >= Min2(limit, GoodEnough)
       THEN [best EXCEPT !.set = TRUE, !.list = r.list, !.accepted = TRUE]
  ELSE IF ~best.set \/ Len(r.list) > Len(best.list)
       THEN [best EXCEPT !.set = TRUE, !.list = r.list]
  ELSE [best EXCEPT !.tie = @ \/ (Len(r.list) = Len(best.list) /\ r.list # best.list)]

\* Where the loops go after the attempt at (w, v): <<w', v'>>, or <<0, 0>>
\* when both loops are left.
LoopExit == <<0, 0>>

\* nextAttempt without the two breaks: the loops always run to their end.
nextAttempt_NoBreak(w, v, isAll, r, edges, limit) ==
  IF v = Len(whereVariants(isAll))
  THEN IF w = Len(windowsMs(isAll)) THEN LoopExit ELSE <<w + 1, 1>>
  ELSE <<w, v + 1>>

nextAttempt(w, v, isAll, r, edges, limit) ==
  IF innerBreak(r, limit) \/ v = Len(whereVariants(isAll))
  THEN IF outerBreak(edges, limit) \/ w = Len(windowsMs(isAll))
       THEN LoopExit
       ELSE <<w + 1, 1>>
  ELSE <<w, v + 1>>

\* a rejected fetch(endpoint) is not caught inside the loop: it reaches the
\* handler's catch
attemptThrows(r) == r.throws

Attempt(p) ==
  /\ req[p].pc = "attempt"
  /\ \E reply \in Replies(upstream) :
       LET r0 == req[p]
           r == [r0 EXCEPT !.attempts = Append(@, <<r0.w, r0.v>>)]
           edges == edgesAfter(r.edges, reply, r.limit)
           lastErr == lastErrAfter(r.lastErr, reply)
           nxt == nextAttempt(r.w, r.v, r.isAll, reply, edges, r.limit)
           r1 == [r EXCEPT !.edges = edges, !.lastErr = lastErr,
                           !.best = owedAfter(@, reply, r.limit)]
       IN IF attemptThrows(reply)
          THEN Throw(p, r, "fetch")
          ELSE IF nxt # LoopExit
          THEN /\ req' = [req EXCEPT ![p] = [r1 EXCEPT !.w = nxt[1], !.v = nxt[2]]]
               /\ log' = log
          ELSE IF ~edges.set
          THEN Return(p, r1, upstreamErrorResponse(lastErr))
          ELSE /\ req' = [req EXCEPT ![p] = [r1 EXCEPT !.pc = "items"]]
               /\ log' = log
  /\ UNCHANGED <<cache, pending, todo, upstream>>

(***************************************************************************)
(* index.js 307-346: the item callback of the next edge.                   *)
(***************************************************************************)
Enrich(p) ==
  /\ req[p].pc = "items"
  /\ Len(req[p].items) < Len(req[p].edges.list)
  /\ LET r == req[p]
         node == r.edges.list[Len(r.items) + 1]
     IN IF ~node.node
        THEN Throw(p, r, "TypeError")
        ELSE \E outcome \in TldrOutcomes :
               IF outcome = "matchThrows"
               THEN Throw(p, r, "tldr cache.match")
               ELSE /\ req' = [req EXCEPT ![p] =
                         [r EXCEPT !.items = Append(@, itemOf(node, fetchDiggTldr(node, outcome))),
                                   !.fetches = @ + (IF fetchesPage(outcome) THEN 1 ELSE 0)]]
                    /\ log' = log
  /\ UNCHANGED <<cache, pending, todo, upstream>>

(***************************************************************************)
(* index.js 348-366: render, schedule the cache write, return.             *)
(***************************************************************************)
\* Render with the write handed over before rendering can fail: the error
\* response is what gets stored
Render_StoresOnThrow(p) ==
  /\ req[p].pc = "items"
  /\ Len(req[p].items) = Len(req[p].edges.list)
  /\ LET r == req[p]
         out == feedResponse(selectorOf(r.isAll, r.communitySlug), r.items)
         key == cacheKeyOf(r.url, rewriteLegacy(r.url.path))
     IN \/ /\ Return(p, r, out)
           /\ pending' = pending \cup
                {[key |-> key, resp |-> out, seq |-> Len(log) + 1]}
        \/ /\ Throw(p, r, "render")
           /\ pending' = pending \cup
                {[key |-> key, resp |-> catch("render"), seq |-> Len(log) + 1]}
  /\ UNCHANGED <<cache, todo, upstream>>

Render(p) ==
  /\ req[p].pc = "items"
  /\ Len(req[p].items) = Len(req[p].edges.list)
  /\ LET r == req[p]
         out == feedResponse(selectorOf(r.isAll, r.communitySlug), r.items)
     IN \/ /\ Return(p, r, out)
           /\ pending' = pending \cup
                {[key |-> cacheKeyOf(r.url, rewriteLegacy(r.url.path)),
                  resp |-> out, seq |-> Len(log) + 1]}
        \/ /\ Throw(p, r, "render")
           /\ pending' = pending
  /\ UNCHANGED <<cache, todo, upstream>>

(***************************************************************************)
(* ctx.waitUntil(cache.put(cacheKey, out.clone())): the write settles      *)
(* some time after the response was returned, or is rejected.              *)
(***************************************************************************)
CachePutLands ==
  \E wr \in pending :
    /\ cache' = [cache EXCEPT ![wr.key] = wr.resp]
    /\ pending' = pending \ {wr}
    /\ UNCHANGED <<req, todo, upstream, log>>

CachePutFails ==
  \E wr \in pending :
    /\ pending' = pending \ {wr}
    /\ UNCHANGED <<req, cache, todo, upstream, log>>

\* Requests are handled one after the other by invocation 1.
Next ==
  \/ Arrive(1)
  \/ CacheMatch(1)
  \/ Attempt(1)
  \/ Enrich(1)
  \/ Render(1)
  \/ CachePutLands
  \/ CachePutFails

Spec == Init /\ [][Next]_vars

(***************************************************************************)
(* Two invocations at once.  The handler awaits at every I/O call, so the  *)
(* steps of two requests in flight interleave freely; request i is handled *)
(* by invocation i.  The upstream is free to answer the two differently.   *)
(***************************************************************************)
\* the two requests: twice the same URL, canonical or legacy, or one of each
RaceUrls == { Url(P_all, Absent, Absent), Url(P_legacyAll, Absent, Absent) }

RaceScenarios ==
  { <<(<<u, u>>), RaceRecs>> : u \in RaceUrls }
  \cup { <<(<<Url(P_all, Absent, Absent), Url(P_legacyAll, Absent, Absent)>>), RaceRecs>> }

InitRace ==
  /\ req = [p \in Procs |-> Idle]
  /\ cache = [k \in Urls |-> NoResp]
  /\ pending = {}
  /\ \E sc \in RaceScenarios : todo = sc[1] /\ upstream = sc[2]
  /\ log = <<>>

\* the requests arrive in order, each starting an invocation of its own
ArriveRace(p) ==
  /\ req[p].pc = "idle"
  /\ \A q \in Procs : q < p => req[q].pc # "idle"
  /\ Arrive(p)

NextRace ==
  \/ ArriveRace(1)
  \/ ArriveRace(2)
  \/ CacheMatch(1)
  \/ CacheMatch(2)
  \/ Attempt(1)
  \/ Attempt(2)
  \/ Enrich(1)
  \/ Enrich(2)
  \/ Render(1)
  \/ Render(2)
  \/ CachePutLands
  \/ CachePutFails

SpecRace == InitRace /\ [][NextRace]_vars

(***************************************************************************)
(* Properties.                                                             *)
(***************************************************************************)
numVariants(isAll) == Len(whereVariants(isAll))
numAttempts(isAll) == Len(windowsMs(isAll)) * numVariants(isAll)

\* the k-th (window, variant) pair in window-major, variant-minor order
orderAt(isAll, k) ==
  <<((k - 1) \div numVariants(isAll)) + 1, ((k - 1) % numVariants(isAll)) + 1>>

Done(r) == r.pc = "done"
Miss200(r) == Done(r) /\ ~r.hit /\ r.resp.status = 200

\* the items are built, one per record and in order, from the records `list`
BuiltFrom(items, list) ==
  /\ Len(items) = Len(list)
  /\ \A i \in 1..Len(items) : items[i].guid = diggLinkOf(list[i])

\* C1: attempts are issued one at a time in window-major, variant-minor
\* order; the first attempt that succeeds with at least min(N, 5) records is
\* the final result: no attempt is issued after it, edges holds its records
\* and a rendered feed is built from exactly these.
C1_FirstGoodEnoughIsFinal ==
  \A p \in Procs :
    LET r == req[p] IN
      /\ Len(r.attempts) <= numAttempts(r.isAll)
      /\ \A k \in 1..Len(r.attempts) : r.attempts[k] = orderAt(r.isAll, k)
      /\ r.pc = "attempt" =>
           /\ ~r.best.accepted
           /\ <<r.w, r.v>> = orderAt(r.isAll, Len(r.attempts) + 1)
      /\ r.best.accepted =>
           /\ r.pc \in {"items", "done"}
           /\ r.edges = Edges(r.best.list)
           /\ Len(r.best.list) >= Min2(r.limit, 5)
           /\ Len(r.items) <= Len(r.best.list)
           /\ \A i \in 1..Len(r.items) : r.items[i].guid = diggLinkOf(r.best.list[i])
           /\ Miss200(r) => BuiltFrom(r.resp.items, r.best.list)

\* C1 witness: N = 10, a community feed; the attempt at window 2, variant 2
\* is the sixth one and the first good enough, its 5 records are rendered
\* and window 3 was never queried.
C1_Witness ==
  \E p \in Procs :
    LET r == req[p] IN
      /\ Miss200(r)
      /\ r.limit = 10
      /\ ~r.isAll
      /\ r.best.accepted
      /\ Len(r.attempts) = 6
      /\ r.attempts[6] = <<2, 2>>
      /\ Len(r.resp.items) = 5

SafeJsonMax == 2000

Exhausted(r) == Len(r.attempts) = numAttempts(r.isAll)

Second(r) ==
  /\ r.pc # "idle"
  /\ LET k == IF Done(r) THEN Len(log) - 1 ELSE Len(log) IN
       /\ k >= 1
       /\ log[k].url = r.url
       /\ ~log[k].hit
       /\ log[k].status = 200

\* C4 as stated: the second of two consecutive requests for one URL, the
\* first a MISS answered 200, is a HIT and issues no upstream call.
C4_Original ==
  \A p \in Procs :
    LET r == req[p] IN
      Second(r) =>
        /\ r.attempts = <<>>
        /\ r.fetches = 0
        /\ (r.looked /\ r.threw = "") => (Done(r) /\ r.hit)

\* C4 amended: when the first request's cache write has landed by the time
\* the second one looks the cache up, the second one is a HIT: it returns
\* the stored 200 response unchanged and issues no GraphQL attempt and no
\* page fetch (a lookup that throws gives 500, also without upstream call).
C4_HitOnceWriteLanded ==
  \A p \in Procs :
    LET r == req[p] IN
      (Second(r) /\ r.looked /\ r.found) =>
        /\ Done(r)
        /\ r.attempts = <<>>
        /\ r.fetches = 0
        /\ r.threw = "" =>
             /\ r.hit
             /\ r.resp = cache[r.url]
             /\ r.resp.status = 200
             /\ r.resp.cc = "public, max-age=600"
        /\ r.threw # "" => r.resp.status = 500

\* C4 witness: the second request is a HIT served from the entry the first
\* one wrote.
C4_Witness ==
  \E p \in Procs :
    LET r == req[p] IN
      /\ Second(r)
      /\ Done(r)
      /\ r.hit
      /\ Len(r.resp.items) = 2
      /\ pending = {}

\* the path after a leading /rss/digg/ is rewritten once to /rss/
Rewritten(path) ==
  IF Len(path) >= 10 /\ SubSeq(path, 1, 10) = LegacyPrefix
  THEN RssPrefix \o SubSeq(path, 11, Len(path))
  ELSE path

LowerSlugClass == { Lowers[i] : i \in 1..26 } \cup Digits \cup {"-"}
Middle(q) == SubSeq(q, 6, Len(q) - 4)

\* /rss/<slug>.xml with only the slug matched case-insensitively
SlugPathStrict(q) ==
  /\ Len(q) > 9
  /\ SubSeq(q, 1, 5) = RssPrefix
  /\ SubSeq(q, Len(q) - 3, Len(q)) = XmlSuffix
  /\ \A i \in 1..Len(Middle(q)) : toLowerChar(Middle(q)[i]) \in LowerSlugClass

\* /rss/<slug>.xml matched case-insensitively as a whole
SlugPathAnyCase(q) ==
  /\ Len(q) > 9
  /\ toLowerCase(SubSeq(q, 1, 5)) = RssPrefix
  /\ toLowerCase(SubSeq(q, Len(q) - 3, Len(q))) = XmlSuffix
  /\ \A i \in 1..Len(Middle(q)) : toLowerChar(Middle(q)[i]) \in LowerSlugClass

Is404(r) == Done(r) /\ r.resp.status = 404

\* C5 as stated: 404 exactly when the rewritten path is neither the all-feed
\* path nor /rss/<slug>.xml with the slug matched case-insensitively.
C5_Original ==
  \A p \in Procs :
    LET r == req[p]
        q == Rewritten(r.url.path)
    IN r.pc # "idle" => (Is404(r) <=> ~(q = AllPath \/ SlugPathStrict(q)))

\* C5 amended: 404 "Not found" exactly when the rewritten path is neither
\* the all-feed path nor a match of /rss/<slug>.xml taken case-insensitively
\* as a whole; any other path gives one selector, "all" or the lower-cased
\* slug; a 404 comes without cache lookup or upstream call.
C5_NotFoundExactly ==
  \A p \in Procs :
    LET r == req[p]
        q == Rewritten(r.url.path)
    IN r.pc # "idle" =>
         /\ Is404(r) <=> ~(q = AllPath \/ SlugPathAnyCase(q))
         /\ Is404(r) =>
              /\ r.resp.prefix = "Not found"
              /\ ~r.looked /\ ~r.hit
              /\ r.attempts = <<>> /\ r.fetches = 0
         /\ ~Is404(r) =>
              \/ r.isAll /\ q = AllPath /\ r.communitySlug = NoSlug
              \/ /\ ~r.isAll /\ q # AllPath
                 /\ r.communitySlug = toLowerCase(Middle(q))
                 /\ r.communitySlug # <<>>

\* C5 witness: /rss/Foo_Bar.xml was answered 404.
C5_Witness ==
  \E p \in Procs :
    LET r == req[p] IN Is404(r) /\ r.url.path = P_underscore

\* the canonical post URL: https://digg.com/<community>/<id without a
\* leading "<community>-">/<slug>, the community being "digg" when the
\* record names none
Canonical(node) ==
  LET comm == IF node.comm = <<>> THEN <<"d","i","g","g">> ELSE node.comm
      pre == comm \o <<"-">>
      prefixed == /\ Len(node.id) >= Len(pre)
                  /\ \A j \in 1..Len(pre) : node.id[j] = pre[j]
      short == IF prefixed
               THEN [j \in 1..(Len(node.id) - Len(pre)) |-> node.id[j + Len(pre)]]
               ELSE node.id
  IN <<"https://digg.com/">> \o comm \o <<"/">> \o short \o <<"/">> \o node.slug

\* C6: every item built from a post record has the canonical post URL as
\* guid; link is the external URL when that is non-empty and the canonical
\* URL otherwise; guid differs from link exactly when a non-empty external
\* URL other than the canonical URL is present.
C6_GuidIsCanonical ==
  \A p \in Procs :
    LET r == req[p] IN
      /\ Len(r.items) <= Len(r.edges.list)
      /\ \A i \in 1..Len(r.items) :
           LET node == r.edges.list[i]
               it == r.items[i]
           IN /\ it.guid = Canonical(node)
              /\ it.link = IF node.ext # <<>> THEN node.ext ELSE Canonical(node)
              /\ it.guid # it.link <=> (node.ext # <<>> /\ node.ext # Canonical(node))
      /\ Miss200(r) => r.resp.items = r.items

\* C6 witness: a rendered feed with an item whose link is an external URL
\* and differs from its guid, an item whose external URL is its canonical
\* URL, and an item whose id lost its community prefix.
C6_Witness ==
  \E p \in Procs :
    LET r == req[p] IN
      /\ Miss200(r)
      /\ \E i \in 1..Len(r.resp.items) : r.resp.items[i].guid # r.resp.items[i].link
      /\ \E i \in 1..Len(r.resp.items) :
           r.edges.list[i].ext # <<>> /\ r.resp.items[i].guid = r.resp.items[i].link
      /\ \E i \in 1..Len(r.resp.items) :
           r.resp.items[i].guid = <<"https://digg.com/", "t", "/", "7", "/", "a">>

\* C7: no fault escapes the handler: a returned response has status 200,
\* 404, 502 or 500, and an exception thrown anywhere in the handler ends the
\* request with a 500 text response that starts with "Worker error: ".
C7_FaultsBecome500 ==
  \A p \in Procs :
    LET r == req[p] IN
      /\ Done(r) => r.resp.status \in {200, 404, 502, 500}
      /\ r.threw # "" =>
           /\ Done(r)
           /\ r.resp.status = 500
           /\ r.resp.prefix = "Worker error: "
           /\ r.resp.ctype = "text/plain; charset=utf-8"
      /\ (Done(r) /\ r.resp.status = 500) => r.threw # ""

\* C7 witness: records were selected, then the item callback threw on a
\* malformed edge, and the request ended 500.
C7_Witness ==
  \E p \in Procs :
    LET r == req[p] IN
      /\ Done(r)
      /\ r.threw = "TypeError"
      /\ r.edges.set
      /\ r.resp.status = 500

\* C8 as stated: a 200 feed never has more than N items, whatever number of
\* records the upstream returns.
C8_AtMostLimitItems ==
  \A p \in Procs :
    LET r == req[p] IN
      (Done(r) /\ r.resp.status = 200) => Len(r.resp.items) <= r.limit

\* C9 as stated: the feed cache is keyed by the URL after the legacy prefix
\* was rewritten, so every key written or looked up is a normalized URL.
C9_KeyIsNormalized ==
  /\ \A wr \in pending : wr.key.path = Rewritten(wr.key.path)
  /\ \A k \in Urls : cache[k] # NoResp => k.path = Rewritten(k.path)

\* C10 as stated: a network-level exception of one attempt aborts that
\* attempt only; the request goes on and fails, if it fails, as a 502 after
\* every combination was tried.
C10_ExceptionAbortsAttemptOnly ==
  \A p \in Procs :
    LET r == req[p] IN
      r.threw = "fetch" =>
        /\ r.resp.status # 500
        /\ Done(r) => (Exhausted(r) /\ r.resp.status \in {200, 502})

\* an Enrich step of invocation p: the item callback of a well-formed edge
\* has run, fetchDiggTldr included
EnrichStep(p) ==
  /\ req[p].pc = "items"
  /\ Len(req[p].items) < Len(req[p].edges.list)
  /\ req[p].edges.list[Len(req[p].items) + 1].node
  /\ req'[p] # req[p]

\* C11: whatever happens inside a post's TL;DR enrichment (the enrichment
\* cache read fails, the page fetch throws, the page answers a non-success
\* status, the page has no description tag), the item callback of a
\* well-formed record completes: the request is not ended by it, the item is
\* added to the feed, and without a TL;DR its description is the title.
C11_EnrichmentNeverSurfaces ==
  [][\A p \in Procs :
       EnrichStep(p) =>
         /\ req'[p].pc = "items"
         /\ req'[p].threw = ""
         /\ Len(req'[p].items) = Len(req[p].items) + 1
         /\ LET node == req[p].edges.list[Len(req[p].items) + 1]
                item == req'[p].items[Len(req[p].items) + 1]
            IN /\ item.guid = diggLinkOf(node)
               /\ ~node.meta => item.description.text = "title"]_vars

\* the key invocation p uses in the feed cache
KeyOf(p) == cacheKeyOf(req[p].url, rewriteLegacy(req[p].url.path))

\* invocation p looked its key up and the entry was not there
LookedEarly(p) == req[p].looked /\ ~req[p].found

\* both requests are for one key and both looked it up before a write landed
Raced ==
  /\ \A p \in Procs : LookedEarly(p) /\ req[p].threw # "cache.match"
  /\ KeyOf(1) = KeyOf(2)

\* the write invocation p hands to ctx.waitUntil when it returns its feed
WrittenBy(p, wr) == wr.key = req[p].url /\ wr.resp = req[p].resp

C12_State ==
  /\ Raced =>
       \A p \in Procs :
         /\ ~req[p].hit
         /\ req[p].pc # "match"
         /\ Done(req[p]) => /\ Len(req[p].attempts) >= 1
                            /\ req[p].resp.status \in {200, 502, 500}
  /\ \A wr \in pending : \E p \in Procs : Miss200(req[p]) /\ WrittenBy(p, wr)
  /\ \A k \in Urls :
       cache[k] # NoResp =>
         \E p \in Procs : Miss200(req[p]) /\ req[p].url = k /\ cache[k] = req[p].resp

C12_Step ==
  /\ \A p \in Procs :
       (req[p].pc = "items" /\ Miss200(req'[p])) =>
         \E wr \in pending' \ pending : wr.key = req'[p].url /\ wr.resp = req'[p].resp
  /\ cache' # cache =>
       \E wr \in pending \ pending' : cache' = [cache EXCEPT ![wr.key] = wr.resp]

\* C12 as stated: two requests for one key that both look the cache up before
\* either write lands are both MISSes and, when both return a feed, the two
\* values they write are the same.
C12_Original ==
  (Raced /\ \A p \in Procs : Miss200(req[p])) => req[1].resp = req[2].resp

\* C12: two requests for one key that both look the cache up before either
\* write lands are both MISSes and both run the query loop; each one that
\* returns a feed hands one write of that feed, under its own URL, to
\* waitUntil; a write that lands replaces the entry with its value, so every
\* entry is the feed some request returned, the one whose write landed last.
C12_RacingMissesBothWrite == [](C12_State) /\ [][C12_Step]_vars

\* C12 witness: both requests raced and returned different feeds; both
\* writes are settled and the entry holds the first request's feed although
\* the second request was answered later.
C12_Witness ==
  /\ Raced
  /\ \A p \in Procs : Miss200(req[p])
  /\ req[1].resp # req[2].resp
  /\ pending = {}
  /\ cache[req[1].url] = req[1].resp
  /\ Len(log) = 2

\* a response as the handler builds it for a rendered feed
IsFeed(resp) ==
  /\ resp.status = 200
  /\ resp.ctype = "application/rss+xml; charset=utf-8"
  /\ resp.cc = "public, max-age=600"

C13_State ==
  /\ \A k \in Urls : cache[k] = NoResp \/ IsFeed(cache[k])
  /\ \A wr \in pending :
       /\ IsFeed(wr.resp)
       /\ wr.seq \in 1..Len(log)
       /\ log[wr.seq] = [url |-> wr.key, hit |-> FALSE, status |-> 200]

C13_Step ==
  /\ (Len(log') > Len(log) /\ (log'[Len(log')].status # 200 \/ log'[Len(log')].hit))
       => UNCHANGED <<cache, pending>>
  /\ Len(log') = Len(log) => pending' \subseteq pending

\* C13: every entry of the feed cache, and every write on its way to it, is
\* a 200 application/rss+xml response with cache-control "public,
\* max-age=600", handed over by a request answered 200 on a MISS; a request
\* answered 404, 502 or 500, or served as a HIT, changes neither the cache
\* nor the writes on their way.
C13_OnlyFeedsAreCached == [](C13_State) /\ [][C13_Step]_vars

\* C13 witness: a MISS answered 200 whose write has landed, then a request
\* for another key answered 502; the first entry is the feed and the second
\* key has no entry.
C13_Witness ==
  /\ Len(log) = 2
  /\ log[1].status = 200 /\ ~log[1].hit
  /\ log[2].status = 502
  /\ log[1].url # log[2].url
  /\ pending = {}
  /\ IsFeed(cache[log[1].url])
  /\ cache[log[2].url] = NoResp

====
